---- MODULE Spec2Model ----
(***************************************************************************)
(* Optimistic mutation / cache consistency subsystem of the todo app:     *)
(* the React Query hooks (useCreateTodo, useUpdateTodo, useDeleteTodo,     *)
(* useToggleTodo, useDeleteCompleted), the query client configuration,    *)
(* the transport client (fetchApi) and the todo routes they talk to.      *)
(***************************************************************************)
EXTENDS Integers, Sequences, FiniteSets, TLC

\* ------------------------------------------------------------------ bounds
MaxMutations == 1      \* mutations started in one behaviour
MaxClock == 1          \* last value of the millisecond clock (Date.now / NOW())
MaxResponses == 5      \* responses one read may meet in SpecTransport
MaxRequests == 4       \* requests the API handles in one behaviour of SpecApi
MaxPending == 2        \* mutations started in one behaviour of SpecPair
MaxReads == 2          \* list and stats requests in one behaviour of SpecRace
MaxWrites == 2         \* writes beside them in one behaviour of SpecRace

\* -------------------------------------------------------- JS-like values
\* An optional value (T | undefined) is a set with at most one element.
None == {}
Some(x) == {x}
The(o) == CHOOSE x \in o : TRUE

RECURSIVE SelectSeqBy(_, _)
\* Array.prototype.filter with the predicate given as a set of kept elements
SelectSeqBy(s, keep) ==
    IF s = <<>> THEN <<>>
    ELSE IF Head(s) \in keep THEN <<Head(s)>> \o SelectSeqBy(Tail(s), keep)
         ELSE SelectSeqBy(Tail(s), keep)

Reverse(s) == [i \in 1..Len(s) |-> s[Len(s) + 1 - i]]

Range(s) == {s[i] : i \in 1..Len(s)}

\* ------------------------------------------------------------ identifiers
\* ids the store hands out (uuid_generate_v4: fresh on every insert)
IdNames == <<"id1", "id2", "id3", "id4", "id5", "id6">>
\* `temp-${Date.now()}` for each value of the clock
TempIds == <<"temp-0", "temp-1", "temp-2", "temp-3">>
TempId(t) == TempIds[t + 1]

\* titles a client may submit; the empty one is rejected by the schemas
SubmittedTitles == {"", "b"}

\* list filters that are mounted by useTodos (queryKeys.todos.list(filters))
ListFilters == {"none", "completed"}

\* ------------------------------------------------------------- query keys
TodosAll == <<"todos">>
ListsKey == TodosAll \o <<"list">>
ListKey(filters) == ListsKey \o <<filters>>
DetailsKey == TodosAll \o <<"detail">>
DetailKey(id) == DetailsKey \o <<id>>
StatsKey == <<"stats">>

\* partial (prefix) matching of a query filter against a query key
PartialMatch(prefix, key) ==
    /\ Len(prefix) <= Len(key)
    /\ \A i \in 1..Len(prefix) : key[i] = prefix[i]

VARIABLES
    store,      \* rows of todo_app.todos, in insertion (created_at) order
    nextId,     \* number of ids handed out so far
    now,        \* the clock
    wire,       \* the API the client talks to: "wrapped" is the API as the
                \* routes are deployed (list body { data, pagination }),
                \* "flat" the API as shared/types declares it and the hooks
                \* read it (TodoListResponse); fixed for a whole behaviour
    cache,      \* the query cache: query key -> query state
    orphans,    \* keys of cancelled fetches whose response is still to arrive
    muts,       \* the pending mutations, in the order they were started
    started,    \* number of mutations started so far
    last,       \* the record of the mutation that concluded most recently
    tx,         \* one read followed through the transport (SpecTransport)
    api         \* the API followed request by request (SpecApi)

vars == <<store, nextId, now, wire, cache, orphans, muts, started, last, tx, api>>

\* ------------------------------------------------------------ the server
\* the columns of a todo that the hooks read or write (created_at is the
\* position of the row in the store)
Row(id, title, completed) ==
    [id |-> id, title |-> title, completed |-> completed]

HasRow(rows, id) == \E i \in 1..Len(rows) : rows[i].id = id
RowOf(rows, id) == rows[CHOOSE i \in 1..Len(rows) : rows[i].id = id]

\* an HTTP response as the transport client sees it
Http(status, body) ==
    [received |-> TRUE, status |-> status, json |-> TRUE, body |-> body]
NoContent == [received |-> TRUE, status |-> 204, json |-> FALSE, body |-> None]
NoResponse == [received |-> FALSE, status |-> 0, json |-> FALSE, body |-> None]
\* errorHandler: { error: <message> }
ErrorBody(status) == Http(status, Some([error |-> status]))

\* WHERE clause of the list query
MatchesFilter(filters, row) ==
    IF filters = "completed" THEN row.completed = TRUE
    ELSE IF filters = "active" THEN row.completed = FALSE
    ELSE TRUE

\* listTodosQuerySchema as the routes apply it to the query of useTodos:
\* completed is optional().transform(val => val === 'true'), so a request
\* without the parameter is parsed to completed = false
ParsedFilters(filters) == IF filters = "none" THEN "active" ELSE filters

\* rows of the list query: ORDER BY created_at DESC
ListRows(rows, filters) ==
    Reverse(SelectSeqBy(rows, {r \in Range(rows) : MatchesFilter(filters, r)}))

\* body of GET /api/todos as the routes send it
WrappedList(items) ==
    [data |-> items, pagination |-> [total |-> Len(items)]]
\* body of GET /api/todos as TodoListResponse declares it
FlatList(items) ==
    [todos |-> items, total |-> Len(items)]

ListHandler(rows, filters, shape) ==
    Http(200, Some(IF shape = "wrapped"
                   THEN WrappedList(ListRows(rows, ParsedFilters(filters)))
                   ELSE FlatList(ListRows(rows, filters))))

\* validateParams(uuidSchema.transform((id) => ({ id }))) parses req.params,
\* an object, with a string schema: the routes under /:id as they are
\* deployed answer every request with the 400 of a validation failure
ParamsRejected(shape) == shape = "wrapped"

GetHandler(rows, id) ==
    IF HasRow(rows, id) THEN Http(200, Some(RowOf(rows, id))) ELSE ErrorBody(404)

StatsHandler(rows) ==
    Http(200, Some([total |-> Len(rows),
                    completed |-> Cardinality({i \in 1..Len(rows) : rows[i].completed})]))

\* createTodoSchema / updateTodoSchema: title.min(1)
ValidTitle(title) == title # ""

\* each write handler yields the rows after it and its response
CreateHandler(rows, n, title) ==
    IF ~ValidTitle(title)
    THEN [rows |-> rows, ids |-> n, resp |-> ErrorBody(400)]
    ELSE LET row == Row(IdNames[n + 1], title, FALSE)
         IN [rows |-> Append(rows, row), ids |-> n + 1, resp |-> Http(201, Some(row))]

PatchHandler(rows, n, id, data) ==
    IF "title" \in DOMAIN data /\ ~ValidTitle(data.title)
    THEN [rows |-> rows, ids |-> n, resp |-> ErrorBody(400)]
    ELSE IF DOMAIN data = {}
    THEN [rows |-> rows, ids |-> n, resp |-> ErrorBody(400)]
    ELSE IF ~HasRow(rows, id)
    THEN [rows |-> rows, ids |-> n, resp |-> ErrorBody(404)]
    ELSE LET new == [f \in DOMAIN RowOf(rows, id) |->
                        IF f \in DOMAIN data THEN data[f] ELSE RowOf(rows, id)[f]]
         IN [rows |-> [i \in 1..Len(rows) |-> IF rows[i].id = id THEN new ELSE rows[i]],
             ids |-> n, resp |-> Http(200, Some(new))]

DeleteHandler(rows, n, id) ==
    IF ~HasRow(rows, id)
    THEN [rows |-> rows, ids |-> n, resp |-> ErrorBody(404)]
    ELSE [rows |-> SelectSeqBy(rows, {r \in Range(rows) : r.id # id}),
          ids |-> n, resp |-> NoContent]

ToggleHandler(rows, n, id) ==
    IF ~HasRow(rows, id)
    THEN [rows |-> rows, ids |-> n, resp |-> ErrorBody(404)]
    ELSE LET old == RowOf(rows, id)
             new == [old EXCEPT !.completed = ~old.completed]
         IN [rows |-> [i \in 1..Len(rows) |-> IF rows[i].id = id THEN new ELSE rows[i]],
             ids |-> n, resp |-> Http(200, Some(new))]

ClearCompletedHandler(rows, n) ==
    LET kept == SelectSeqBy(rows, {r \in Range(rows) : ~r.completed})
    IN [rows |-> kept, ids |-> n,
        resp |-> Http(200, Some([deleted |-> Len(rows) - Len(kept)]))]

\* ------------------------------------------------------ transport client
ApiClientError(statusCode) == [name |-> "ApiClientError", statusCode |-> statusCode]
Resolved(data) == [ok |-> TRUE, data |-> data]
Rejected(error) == [ok |-> FALSE, error |-> error]

\* fetchApi: what the promise settles to for a response
FetchApi(response) ==
    IF ~response.received THEN Rejected(ApiClientError(0))
    ELSE IF response.status = 204 THEN Resolved(None)
    ELSE IF ~response.json THEN Rejected(ApiClientError(0))
    ELSE IF ~(response.status \in 200..299) THEN Rejected(ApiClientError(response.status))
    ELSE Resolved(response.body)

\* queryConfig.queries.retry
QueryRetry(failureCount, error) ==
    IF /\ "response" \in DOMAIN error
       /\ error.response.status >= 400
       /\ error.response.status < 500
    THEN FALSE
    ELSE failureCount < 3

\* queryConfig.mutations.retry
MutationRetry == 1

\* retryer: whether a failed attempt is run again
ShouldRetryMutation(failureCount, error) == failureCount < MutationRetry

\* --------------------------------------------------------- the query cache
\* a query without data that is not fetching
NewQuery == [data |-> None, isInvalidated |-> FALSE, fetchStatus |-> "idle", resp |-> None]

getQueryData(c, key) == IF key \in DOMAIN c THEN c[key].data ELSE None

\* Query.setData for a manual write: undefined is ignored, a value is stored
\* and the query is fresh again
SetData(q, data) ==
    IF data = None THEN q ELSE [q EXCEPT !.data = data, !.isInvalidated = FALSE]

setQueryData(c, key, data) ==
    IF data = None THEN c
    ELSE IF key \in DOMAIN c THEN [c EXCEPT ![key] = SetData(@, data)]
    ELSE c @@ (key :> SetData(NewQuery, data))

\* updated[k] is what the updater returns for the data of query k
setQueriesData(c, prefix, updated) ==
    [k \in DOMAIN c |->
        IF PartialMatch(prefix, k) THEN SetData(c[k], updated[k]) ELSE c[k]]

\* keys whose fetch cancelQueries stops; the request itself is not aborted
Cancelled(c, prefix) ==
    {k \in DOMAIN c : PartialMatch(prefix, k) /\ c[k].fetchStatus = "fetching"}

cancelQueries(c, prefix) ==
    [k \in DOMAIN c |->
        IF k \in Cancelled(c, prefix)
        THEN [c[k] EXCEPT !.fetchStatus = "idle", !.resp = None]
        ELSE c[k]]

\* keys whose running fetch invalidateQueries replaces (cancelRefetch): a
\* query that has no data yet keeps the fetch it is running
Restarted(c, prefix) ==
    {k \in Cancelled(c, prefix) : c[k].data # None}

\* mark every matching query invalidated and refetch it
invalidateQueries(c, prefix) ==
    [k \in DOMAIN c |->
        IF ~PartialMatch(prefix, k) THEN c[k]
        ELSE IF k \in Cancelled(c, prefix) /\ k \notin Restarted(c, prefix)
        THEN [c[k] EXCEPT !.isInvalidated = TRUE]
        ELSE [c[k] EXCEPT !.isInvalidated = TRUE, !.fetchStatus = "fetching",
                          !.resp = None]]

\* ------------------------------------------------------------- the hooks
Kinds == {"create", "update", "delete", "toggle", "deleteCompleted"}

\* { ...todo, ...data }
Merge(todo, data) ==
    [f \in DOMAIN todo |-> IF f \in DOMAIN data THEN data[f] ELSE todo[f]]

\* the todo useCreateTodo puts in the lists before the server answers
optimisticTodo(newTodo, t) ==
    [id |-> TempId(t), title |-> newTodo.title, completed |-> FALSE]

\* updater of the detail entry (update, toggle)
DetailUpdater(m, old, t) ==
    IF old = None THEN None
    ELSE IF m.kind = "update"
    THEN Some(Merge(The(old), m.data))
    ELSE Some([The(old) EXCEPT !.completed = ~@])

\* old.todos of an entry that has no todos member is undefined: spreading
\* it, or calling map / filter on it, throws a TypeError
ListUpdaterThrows(old) ==
    old # None /\ "todos" \notin DOMAIN The(old)

\* updater of every list variant
ListUpdater(m, old, t) ==
    IF old = None THEN None
    ELSE LET o == The(old) IN
      CASE m.kind = "create" ->
             Some([o EXCEPT !.todos = <<optimisticTodo(m.data, t)>> \o o.todos,
                            !.total = o.total + 1])
        [] m.kind = "update" ->
             Some([o EXCEPT !.todos = [i \in 1..Len(o.todos) |->
                    IF o.todos[i].id = m.id
                    THEN Merge(o.todos[i], m.data)
                    ELSE o.todos[i]]])
        [] m.kind = "delete" ->
             Some([o EXCEPT !.todos = SelectSeqBy(o.todos,
                                         {x \in Range(o.todos) : x.id # m.id}),
                            !.total = o.total - 1])
        [] m.kind = "toggle" ->
             Some([o EXCEPT !.todos = [i \in 1..Len(o.todos) |->
                    IF o.todos[i].id = m.id
                    THEN [o.todos[i] EXCEPT !.completed = ~@]
                    ELSE o.todos[i]]])
        [] OTHER -> old

\* The callbacks, as the statements they run in order.
onMutateMissingCancel(kind) ==
    CASE kind \in {"create", "delete"} ->
           <<"snapshotLists", "writeLists", "return">>
      [] kind \in {"update", "toggle"} ->
           <<"snapshotDetail", "snapshotLists", "writeDetail", "writeLists", "return">>
      [] OTHER -> <<>>

onMutateWriteFirst(kind) ==
    CASE kind \in {"create", "delete"} ->
           <<"cancelLists", "writeLists", "snapshotLists", "return">>
      [] kind \in {"update", "toggle"} ->
           <<"cancelDetail", "cancelLists", "writeDetail", "writeLists",
             "snapshotDetail", "snapshotLists", "return">>
      [] OTHER -> <<>>

onMutate(kind) ==
    CASE kind \in {"create", "delete"} ->
           <<"cancelLists", "snapshotLists", "writeLists", "return">>
      [] kind \in {"update", "toggle"} ->
           <<"cancelDetail", "cancelLists", "snapshotDetail", "snapshotLists",
             "writeDetail", "writeLists", "return">>
      [] OTHER -> <<>>

onError(kind) ==
    CASE kind \in {"create", "delete"} -> <<"restoreLists">>
      [] kind \in {"update", "toggle"} -> <<"restoreDetail", "restoreLists">>
      [] OTHER -> <<>>

onSuccessNothing(kind) == <<>>

onSuccess(kind) ==
    IF kind = "deleteCompleted" THEN <<"invalidateLists", "invalidateStats">>
    ELSE <<>>

onSettledNothing(kind) == <<>>

onSettled(kind) ==
    CASE kind \in {"create", "delete"} -> <<"invalidateLists", "invalidateStats">>
      [] kind \in {"update", "toggle"} ->
           <<"invalidateDetail", "invalidateLists", "invalidateStats">>
      [] OTHER -> <<>>

hasOnSettledButCreate(kind) == kind \in {"update", "delete", "toggle"}

\* the hooks that pass an onSettled callback to useMutation
hasOnSettled(kind) == kind \in {"create", "update", "delete", "toggle"}

\* One statement of a callback of mutation m at time t, run on the local
\* state st = [cache, orphans, snap, context, invalidated, threw].
Exec(step, st, m, t) ==
    CASE step = "cancelDetail" ->
           [st EXCEPT !.cache = cancelQueries(st.cache, DetailKey(m.id)),
                      !.orphans = @ \cup Cancelled(st.cache, DetailKey(m.id))]
      [] step = "cancelLists" ->
           [st EXCEPT !.cache = cancelQueries(st.cache, ListsKey),
                      !.orphans = @ \cup Cancelled(st.cache, ListsKey)]
      [] step = "snapshotDetail" ->
           [st EXCEPT !.snap.previousTodo = getQueryData(st.cache, DetailKey(m.id))]
      [] step = "snapshotLists" ->
           [st EXCEPT !.snap.previousTodos = getQueryData(st.cache, ListsKey)]
      [] step = "writeDetail" ->
           [st EXCEPT !.cache = setQueryData(st.cache, DetailKey(m.id),
                        DetailUpdater(m, getQueryData(st.cache, DetailKey(m.id)), t))]
      [] step = "writeLists" ->
           IF \E k \in DOMAIN st.cache :
                 PartialMatch(ListsKey, k) /\ ListUpdaterThrows(st.cache[k].data)
           THEN [st EXCEPT !.threw = TRUE]
           ELSE [st EXCEPT !.cache = setQueriesData(st.cache, ListsKey,
                                        [k \in DOMAIN st.cache |->
                                           ListUpdater(m, st.cache[k].data, t)])]
      [] step = "return" ->
           [st EXCEPT !.context = Some(st.snap)]
      [] step = "restoreDetail" ->
           IF st.context # None /\ The(st.context).previousTodo # None
           THEN [st EXCEPT !.cache = setQueryData(st.cache, DetailKey(m.id),
                                        The(st.context).previousTodo)]
           ELSE st
      [] step = "restoreLists" ->
           IF st.context # None /\ The(st.context).previousTodos # None
           THEN [st EXCEPT !.cache = setQueriesData(st.cache, ListsKey,
                                        [k \in DOMAIN st.cache |->
                                           The(st.context).previousTodos])]
           ELSE st
      [] step = "invalidateDetail" ->
           [st EXCEPT !.cache = invalidateQueries(st.cache, DetailKey(m.id)),
                      !.orphans = @ \cup Restarted(st.cache, DetailKey(m.id)),
                      !.invalidated = Append(@, DetailKey(m.id))]
      [] step = "invalidateLists" ->
           [st EXCEPT !.cache = invalidateQueries(st.cache, ListsKey),
                      !.orphans = @ \cup Restarted(st.cache, ListsKey),
                      !.invalidated = Append(@, ListsKey)]
      [] step = "invalidateStats" ->
           [st EXCEPT !.cache = invalidateQueries(st.cache, StatsKey),
                      !.orphans = @ \cup Restarted(st.cache, StatsKey),
                      !.invalidated = Append(@, StatsKey)]
      [] OTHER -> st

RECURSIVE Run(_, _, _, _)
\* run the statements in order; a throw abandons the rest
Run(steps, st, m, t) ==
    IF steps = <<>> \/ st.threw THEN st
    ELSE Run(Tail(steps),
             [Exec(Head(steps), st, m, t) EXCEPT !.log = Append(@, Head(steps))],
             m, t)

\* the local state the callbacks of mutation m start from
Local(m) ==
    [cache |-> cache, orphans |-> orphans,
     snap |-> [previousTodo |-> None, previousTodos |-> None],
     context |-> m.context, invalidated |-> m.invalidated,
     log |-> m.log, threw |-> FALSE]

\* one callback: its name is logged, then its statements run
Call(phase, steps, st, m, t) ==
    Run(steps, [st EXCEPT !.log = Append(@, phase), !.threw = FALSE], m, t)

\* Mutation.execute after the outcome is known: onSuccess or onError, then
\* onSettled where the hook passes one. The callbacks are awaited one after
\* the other without a network suspension in between.
Conclude(ok, st, m, t) ==
    LET st1 == IF ok THEN Call("commit", onSuccess(m.kind), st, m, t)
               ELSE Call("rollback", onError(m.kind), st, m, t)
    IN IF hasOnSettled(m.kind) THEN Call("settle", onSettled(m.kind), st1, m, t)
       ELSE st1

\* ------------------------------------------------------------ the state
\* ids a mutation or a detail query is addressed to
TargetIds == {"id1"}

\* keys the components mount: useTodos(filters), useTodo(id), useStats()
MountKeys ==
    {ListKey(f) : f \in ListFilters} \cup {DetailKey(id) : id \in TargetIds}
        \cup {StatsKey}

\* the variables a request carries, per kind of mutation
Variables(kind) ==
    CASE kind = "create" ->
           {[id |-> "", data |-> [title |-> ti]] : ti \in SubmittedTitles}
      [] kind = "update" ->
           {[id |-> id, data |-> [title |-> "b"]] : id \in TargetIds}
      [] kind \in {"delete", "toggle"} ->
           {[id |-> id, data |-> <<>>] : id \in TargetIds}
      [] OTHER -> {[id |-> "", data |-> <<>>]}

\* the response of the API to the request of query k
QueryFn(k, rows, shape) ==
    IF k = StatsKey THEN FetchApi(StatsHandler(rows))
    ELSE IF PartialMatch(ListsKey, k) THEN FetchApi(ListHandler(rows, k[3], shape))
    ELSE IF ParamsRejected(shape) THEN FetchApi(ErrorBody(400))
    ELSE FetchApi(GetHandler(rows, k[3]))

\* a query whose fetch has succeeded
Loaded(k, rows, shape) == [NewQuery EXCEPT !.data = QueryFn(k, rows, shape).data]

TxIdle == [phase |-> "idle", failureCount |-> 0, attempts |-> <<>>]

\* no request has been followed through the API
ApiIdle == [ddl |-> "schema", count |-> 0, req |-> [route |-> "none"],
            resp |-> NoResponse, sql |-> <<>>, before |-> <<>>, at |-> 0]

\* what is kept of a mutation once it has concluded
Concluded(m, n, ok, threw) ==
    [seq |-> n, kind |-> m.kind, id |-> m.id, ok |-> ok, threw |-> threw,
     sent |-> m.sent, errors |-> m.errors, log |-> m.log,
     invalidated |-> m.invalidated]

NoMutation ==
    [seq |-> 0, kind |-> "none", id |-> "", ok |-> FALSE, threw |-> FALSE,
     sent |-> 0, errors |-> <<>>, log |-> <<>>, invalidated |-> <<>>]

InitialRows == <<Row("id1", "a", FALSE), Row("id2", "a", TRUE)>>

\* The application after its first render: every query is mounted, and each
\* has its data or is still running its first fetch.
Init ==
    /\ store = InitialRows
    /\ nextId = Len(InitialRows)
    /\ now = 0
    /\ wire \in {"flat", "wrapped"}
    /\ \E loaded \in SUBSET MountKeys :
          /\ StatsKey \in loaded
          /\ \A k \in loaded : QueryFn(k, InitialRows, wire).ok
          /\ cache = [k \in MountKeys |->
                        IF k \in loaded THEN Loaded(k, InitialRows, wire)
                        ELSE [NewQuery EXCEPT !.fetchStatus = "fetching"]]
    /\ orphans = {}
    /\ muts = <<>>
    /\ started = 0
    /\ last = NoMutation
    /\ tx = TxIdle
    /\ api = ApiIdle

\* ------------------------------------------------------------- queries
\* the server handles the request of a running fetch
ServerAnswer(k) ==
    /\ k \in DOMAIN cache
    /\ cache[k].fetchStatus = "fetching"
    /\ cache[k].resp = None
    /\ cache' = [cache EXCEPT ![k].resp = Some(QueryFn(k, store, wire))]
    /\ UNCHANGED <<store, nextId, now, wire, orphans, muts, started, last, tx, api>>

\* the response of a running fetch arrives
Deliver(k) ==
    /\ k \in DOMAIN cache
    /\ cache[k].fetchStatus = "fetching"
    /\ cache[k].resp # None
    /\ cache' = [cache EXCEPT ![k] =
                   IF The(cache[k].resp).ok
                   THEN [@ EXCEPT !.data = The(cache[k].resp).data,
                                  !.isInvalidated = FALSE,
                                  !.fetchStatus = "idle", !.resp = None]
                   ELSE [@ EXCEPT !.fetchStatus = "idle", !.resp = None]]
    /\ UNCHANGED <<store, nextId, now, wire, orphans, muts, started, last, tx, api>>

\* the response of a cancelled fetch arrives and is dropped
DeliverOrphan(k) ==
    /\ k \in orphans
    /\ orphans' = orphans \ {k}
    /\ UNCHANGED <<store, nextId, now, wire, cache, muts, started, last, tx, api>>

\* a millisecond passes; the clock is read by optimistic creates only, so
\* it is followed from the first one on
Tick ==
    /\ now < MaxClock
    /\ \/ last.kind = "create"
       \/ \E i \in 1..Len(muts) : muts[i].kind = "create"
    /\ now' = now + 1
    /\ UNCHANGED <<store, nextId, wire, cache, orphans, muts, started, last, tx, api>>

\* ------------------------------------------------------------ mutations
RemoveAt(s, i) == SubSeq(s, 1, i - 1) \o SubSeq(s, i + 1, Len(s))

\* a mutation as mutate() creates it; pre is the data of every query at
\* that moment
NewMutation(kind, v) ==
    [kind |-> kind, id |-> v.id, data |-> v.data, pc |-> "request",
     context |-> None, failureCount |-> 0, sent |-> 0, result |-> None,
     errors |-> <<>>, log |-> <<>>, invalidated |-> <<>>,
     pre |-> [k \in DOMAIN cache |-> cache[k].data]]

\* mutate(variables): onMutate runs to its end before the request is made;
\* when it throws, the request is never made and the mutation fails at once
Mutate(kind, v) ==
    /\ started' = started + 1
    /\ LET m == NewMutation(kind, v)
           st == Call("mutate", onMutate(kind), Local(m), m, now)
           end == IF st.threw THEN Conclude(FALSE, st, m, now) ELSE st
           mm == [m EXCEPT !.context = end.context, !.log = end.log,
                           !.invalidated = end.invalidated]
       IN /\ cache' = end.cache
          /\ orphans' = end.orphans
          /\ muts' = IF st.threw THEN muts ELSE Append(muts, mm)
          /\ last' = IF st.threw THEN Concluded(mm, last.seq + 1, FALSE, TRUE)
                     ELSE last
    /\ UNCHANGED <<store, nextId, now, wire, tx, api>>

Start(kind, v) == started < MaxMutations /\ Mutate(kind, v)

\* the route that handles the request of mutation m
Handle(m) ==
    CASE m.kind = "create" -> CreateHandler(store, nextId, m.data.title)
      [] m.kind \in {"update", "delete", "toggle"} /\ ParamsRejected(wire) ->
           [rows |-> store, ids |-> nextId, resp |-> ErrorBody(400)]
      [] m.kind = "update" -> PatchHandler(store, nextId, m.id, m.data)
      [] m.kind = "delete" -> DeleteHandler(store, nextId, m.id)
      [] m.kind = "toggle" -> ToggleHandler(store, nextId, m.id)
      [] OTHER -> ClearCompletedHandler(store, nextId)

NetOutcomes == {"served", "lost_request", "lost_response"}

\* mutationFn: the request goes out; it reaches the server or not, and the
\* response comes back or not
Send(i, net) ==
    /\ i \in 1..Len(muts)
    /\ muts[i].pc = "request"
    /\ LET m == muts[i]
           h == Handle(m)
           response == IF net = "served" THEN h.resp ELSE NoResponse
       IN /\ store' = IF net = "lost_request" THEN store ELSE h.rows
          /\ nextId' = IF net = "lost_request" THEN nextId ELSE h.ids
          /\ muts' = [muts EXCEPT ![i] =
                        [m EXCEPT !.pc = "waiting", !.sent = @ + 1,
                                  !.result = Some(FetchApi(response)),
                                  !.log = Append(@, "send")]]
    /\ UNCHANGED <<now, wire, cache, orphans, started, last, tx, api>>

\* the promise of mutationFn settles: the retryer runs another attempt, or
\* the mutation concludes
Receive(i) ==
    /\ i \in 1..Len(muts)
    /\ muts[i].pc = "waiting"
    /\ LET m == muts[i]
           r == The(m.result)
           retry == ~r.ok /\ ShouldRetryMutation(m.failureCount, r.error)
           failed == [m EXCEPT !.result = None, !.failureCount = @ + 1,
                               !.errors = Append(@, r.error.statusCode)]
           end == Conclude(r.ok, Local(m), m, now)
           mm == [(IF r.ok THEN m ELSE failed) EXCEPT
                     !.log = end.log, !.invalidated = end.invalidated]
       IN /\ cache' = IF retry THEN cache ELSE end.cache
          /\ orphans' = IF retry THEN orphans ELSE end.orphans
          /\ muts' = IF retry THEN [muts EXCEPT ![i] = [failed EXCEPT !.pc = "request"]]
                     ELSE RemoveAt(muts, i)
          /\ last' = IF retry THEN last
                     ELSE Concluded(mm, last.seq + 1, r.ok, FALSE)
    /\ UNCHANGED <<store, nextId, now, wire, started, tx, api>>

Next ==
    \/ \E k \in MountKeys : ServerAnswer(k)
    \/ \E k \in MountKeys : Deliver(k)
    \/ \E k \in MountKeys : DeliverOrphan(k)
    \/ Tick
    \/ \E kind \in Kinds : \E v \in Variables(kind) : Start(kind, v)
    \/ \E i \in 1..MaxMutations : \E net \in NetOutcomes : Send(i, net)
    \/ \E i \in 1..MaxMutations : Receive(i)

Spec == Init /\ [][Next]_vars

\* ------------------------------------------- mutations that overlap
\* the hooks whose mutations are followed when two are started
PairKinds == {"create", "toggle"}

\* the variables of those mutations
PairVariables(kind) == {v \in Variables(kind) : kind = "create" => v.data.title # ""}

\* a query whose fetch has ended: with its data, or without when the API
\* rejected the request
Fetched(k, rows, shape) ==
    IF QueryFn(k, rows, shape).ok THEN Loaded(k, rows, shape) ELSE NewQuery

\* the application once every mounted query has ended its first fetch
InitPair ==
    /\ store = InitialRows
    /\ nextId = Len(InitialRows)
    /\ now = 0
    /\ wire \in {"flat", "wrapped"}
    /\ cache = [k \in MountKeys |-> Fetched(k, InitialRows, wire)]
    /\ orphans = {}
    /\ muts = <<>>
    /\ started = 0
    /\ last = NoMutation
    /\ tx = TxIdle
    /\ api = ApiIdle

StartPair(kind, v) == started < MaxPending /\ Mutate(kind, v)

NextPair ==
    \/ \E k \in MountKeys : ServerAnswer(k)
    \/ \E k \in MountKeys : Deliver(k)
    \/ \E k \in MountKeys : DeliverOrphan(k)
    \/ Tick
    \/ \E kind \in PairKinds : \E v \in PairVariables(kind) : StartPair(kind, v)
    \/ \E i \in 1..MaxPending : \E net \in NetOutcomes : Send(i, net)
    \/ \E i \in 1..MaxPending : Receive(i)

SpecPair == InitPair /\ [][NextPair]_vars

\* ------------------------------------------- one read through the transport
\* a response whose body is not JSON (a proxy's error page)
Html(status) == [received |-> TRUE, status |-> status, json |-> FALSE, body |-> None]

\* what a GET may meet on the network
Responses ==
    {NoResponse, Http(200, Some([ok |-> TRUE])), NoContent,
     ErrorBody(404), ErrorBody(500), Html(502)}

TxStart == [phase |-> "fetching", failureCount |-> 0, attempts |-> <<>>]

InitTransport ==
    /\ store = InitialRows
    /\ nextId = Len(InitialRows)
    /\ now = 0
    /\ wire = "wrapped"
    /\ cache = [k \in {} |-> NewQuery]
    /\ orphans = {}
    /\ muts = <<>>
    /\ started = 0
    /\ last = NoMutation
    /\ tx = TxStart
    /\ api = ApiIdle

\* one attempt of the query function: fetchApi settles, and on a rejection
\* the retryer asks queryConfig.queries.retry whether to go again
TxAttempt(response) ==
    /\ tx.phase = "fetching"
    /\ Len(tx.attempts) < MaxResponses
    /\ LET r == FetchApi(response)
           seen == Append(tx.attempts, [response |-> response, result |-> r])
       IN tx' = IF r.ok
                THEN [tx EXCEPT !.phase = "success", !.attempts = seen]
                ELSE IF QueryRetry(tx.failureCount, r.error)
                THEN [tx EXCEPT !.failureCount = @ + 1, !.attempts = seen]
                ELSE [tx EXCEPT !.phase = "error", !.failureCount = @ + 1,
                                !.attempts = seen]
    /\ UNCHANGED <<store, nextId, now, wire, cache, orphans, muts, started, last, api>>

NextTransport == \E response \in Responses : TxAttempt(response)

SpecTransport == InitTransport /\ [][NextTransport]_vars


\* ---------------------------------------------------------------- the API
\* The routes with their middleware, one request at a time, on rows that
\* carry every column of todo_app.todos.

\* JavaScript numbers as far as page and limit need them: NaN or a multiple
\* of one half
Num(halves) == [nan |-> FALSE, halves |-> halves]
NaN == [nan |-> TRUE, halves |-> 0]

\* Number(raw) on the query strings of the model
ToNumber(raw) ==
    CASE raw = "0" -> Num(0)
      [] raw = "1" -> Num(2)
      [] raw = "2" -> Num(4)
      [] raw = "50" -> Num(100)
      [] raw = "-1" -> Num(-2)
      [] raw = "1.5" -> Num(3)
      [] OTHER -> NaN

\* String.length and trim on the titles of the model
StrLen(str) == IF str = "" THEN 0 ELSE 1
Trim(str) == IF str = " " THEN "" ELSE str

priorityEnum == {"low", "medium", "high"}

\* z.string().datetime() on the due dates of the model, and the instant
\* each of them names on the clock
IsDatetime(str) == str \in {"2000-01-01T00:00:00Z", "2999-01-01T00:00:00Z"}
Timestamp(str) == IF str = "2000-01-01T00:00:00Z" THEN 0 ELSE 99

\* z.string().uuid() on a value: a params object is not a string
WellFormedIds == {IdNames[i] : i \in 1..Len(IdNames)} \cup {"id9"}
uuidSchema(v) == v.type = "string" /\ v.value \in WellFormedIds

\* req.params of a route under /:id
Params(id) == [type |-> "object", id |-> id]

\* the schema the routes under /:id hand to validateParams:
\* uuidSchema.transform((id) => ({ id }))
idParamsSchema(params) == uuidSchema(params)

Has(obj, key) == key \in DOMAIN obj

\* a parse that failed (ZodError), and one that succeeded
Invalid == [ok |-> FALSE]
Valid(value) == [ok |-> TRUE, value |-> value]

listTodosQuerySchema(q) ==
    IF \/ Has(q, "completed") /\ q.completed \notin {"true", "false"}
       \/ Has(q, "priority") /\ q.priority \notin priorityEnum
    THEN Invalid
    ELSE Valid([completed |-> Has(q, "completed") /\ q.completed = "true",
                priority |-> IF Has(q, "priority") THEN Some(q.priority) ELSE None,
                page |-> ToNumber(IF Has(q, "page") THEN q.page ELSE "1"),
                limit |-> ToNumber(IF Has(q, "limit") THEN q.limit ELSE "50")])

createTodoSchema(b) ==
    IF \/ ~Has(b, "title")
       \/ StrLen(b.title) < 1
       \/ Has(b, "priority") /\ b.priority \notin priorityEnum
       \/ Has(b, "due_date") /\ ~IsDatetime(b.due_date)
    THEN Invalid
    ELSE Valid([title |-> b.title,
                description |-> IF Has(b, "description") THEN Some(b.description) ELSE None,
                priority |-> IF Has(b, "priority") THEN b.priority ELSE "medium",
                due_date |-> IF Has(b, "due_date") THEN Some(b.due_date) ELSE None,
                completed |-> IF Has(b, "completed") THEN b.completed ELSE FALSE])

\* the fields an update may set; z.object strips every other key
Recognized == {"title", "description", "priority", "due_date", "completed"}

updateTodoSchema(b) ==
    IF \/ Has(b, "title") /\ StrLen(b.title) < 1
       \/ Has(b, "priority") /\ b.priority \notin priorityEnum
       \/ Has(b, "due_date") /\ ~IsDatetime(b.due_date)
    THEN Invalid
    ELSE Valid([f \in DOMAIN b \cap Recognized |-> b[f]])

\* errors as errorHandler sees them; statusCode 0 stands for none
ZodError == [name |-> "ZodError", statusCode |-> 0, message |-> "Validation failed"]
createError(message, statusCode) ==
    [name |-> "Error", statusCode |-> statusCode, message |-> message]
DbError(message) == [name |-> "Error", statusCode |-> 0, message |-> message]

errorHandler(err) ==
    IF err.name = "ZodError" THEN Http(400, Some([error |-> "Validation failed"]))
    ELSE LET statusCode == IF err.statusCode = 0 THEN 500 ELSE err.statusCode
         IN Http(statusCode,
                 Some([error |-> IF statusCode = 500 THEN "Internal server error"
                                 ELSE err.message]))

\* what a route yields: the rows after it, the ids handed out, its response
\* and the statements it ran
Fails(rows, n, err, sql) ==
    [rows |-> rows, ids |-> n, resp |-> errorHandler(err), sql |-> sql]
Answers(rows, n, status, body, sql) ==
    [rows |-> rows, ids |-> n, resp |-> Http(status, Some(body)), sql |-> sql]

\* the CHECK title_not_empty of the schema file; the migration has none
TitleAdmitted(ddl, title) == ddl = "migration" \/ StrLen(Trim(title)) > 0

\* a row of todo_app.todos with every column; due_date is an instant
FullRow(id, v, t) ==
    [id |-> id, title |-> v.title,
     description |-> IF v.description = Some("") THEN None ELSE v.description,
     completed |-> v.completed, priority |-> v.priority,
     due_date |-> IF v.due_date = None THEN None
                  ELSE Some(Timestamp(The(v.due_date))),
     created_at |-> t, updated_at |-> t]

\* the WHERE clause the list handler builds from the parsed query
Matching(rows, f) ==
    Reverse(SelectSeqBy(rows,
        {r \in Range(rows) :
            /\ r.completed = f.completed
            /\ f.priority # None => r.priority = The(f.priority)}))

\* LIMIT and OFFSET take a non-negative integer; the offset is held in
\* quarters, limit and page being held in halves
Offset4(f) == (f.page.halves - 2) * f.limit.halves
PagingAdmitted(f) ==
    /\ ~f.page.nan /\ ~f.limit.nan
    /\ f.limit.halves % 2 = 0 /\ f.limit.halves >= 0
    /\ Offset4(f) % 4 = 0 /\ Offset4(f) >= 0

\* Math.ceil(total / limit) as JSON carries it: Infinity and NaN become null
TotalPages(total, lim) ==
    IF lim = 0 THEN None ELSE Some((total + lim - 1) \div lim)

\* GET /api/todos
ListTodos(rows, n, q) ==
    LET parsed == listTodosQuerySchema(q) IN
    IF ~parsed.ok THEN Fails(rows, n, ZodError, <<>>)
    ELSE IF ~PagingAdmitted(parsed.value)
    THEN Fails(rows, n, DbError("LIMIT / OFFSET rejected"), <<"select">>)
    ELSE LET f == parsed.value
             lim == f.limit.halves \div 2
             off == Offset4(f) \div 4
             found == Matching(rows, f)
             total == Len(found)
             last_ == IF off + lim < total THEN off + lim ELSE total
             items == IF off >= total THEN <<>> ELSE SubSeq(found, off + 1, last_)
         IN Answers(rows, n, 200,
                    [data |-> items,
                     pagination |-> [page |-> f.page, limit |-> f.limit,
                                     total |-> total,
                                     totalPages |-> TotalPages(total, lim)]],
                    <<"select", "count">>)

\* POST /api/todos
PostTodo(rows, n, t, ddl, b) ==
    LET parsed == createTodoSchema(b) IN
    IF ~parsed.ok THEN Fails(rows, n, ZodError, <<>>)
    ELSE IF ~TitleAdmitted(ddl, parsed.value.title)
    THEN Fails(rows, n, DbError("violates check constraint"), <<"insert">>)
    ELSE LET row == FullRow(IdNames[n + 1], parsed.value, t)
         IN Answers(Append(rows, row), n + 1, 201, row, <<"insert">>)

\* GET /api/todos/:id
GetTodo(rows, n, id) ==
    IF ~idParamsSchema(Params(id)) THEN Fails(rows, n, ZodError, <<>>)
    ELSE IF ~HasRow(rows, id)
    THEN Fails(rows, n, createError("Todo not found", 404), <<"select">>)
    ELSE Answers(rows, n, 200, RowOf(rows, id), <<"select">>)

\* the value a column takes from a field of the patch
Column(f, v) ==
    CASE f = "description" -> Some(v)
      [] f = "due_date" -> Some(Timestamp(v))
      [] OTHER -> v

\* PATCH /api/todos/:id
PatchTodo(rows, n, t, ddl, id, b) ==
    LET parsed == updateTodoSchema(b) IN
    IF ~idParamsSchema(Params(id)) THEN Fails(rows, n, ZodError, <<>>)
    ELSE IF ~parsed.ok THEN Fails(rows, n, ZodError, <<>>)
    ELSE IF DOMAIN parsed.value = {}
    THEN Fails(rows, n, createError("No fields to update", 400), <<>>)
    ELSE IF ~HasRow(rows, id)
    THEN Fails(rows, n, createError("Todo not found", 404), <<"update">>)
    ELSE IF Has(parsed.value, "title") /\ ~TitleAdmitted(ddl, parsed.value.title)
    THEN Fails(rows, n, DbError("violates check constraint"), <<"update">>)
    ELSE LET old == RowOf(rows, id)
             new == [f \in DOMAIN old |->
                       IF f \in DOMAIN parsed.value THEN Column(f, parsed.value[f])
                       ELSE IF f = "updated_at" THEN t
                       ELSE old[f]]
         IN Answers([i \in 1..Len(rows) |-> IF rows[i].id = id THEN new ELSE rows[i]],
                    n, 200, new, <<"update">>)

\* DELETE /api/todos/:id
DeleteTodo(rows, n, id) ==
    IF ~idParamsSchema(Params(id)) THEN Fails(rows, n, ZodError, <<>>)
    ELSE IF ~HasRow(rows, id)
    THEN Fails(rows, n, createError("Todo not found", 404), <<"delete">>)
    ELSE [rows |-> SelectSeqBy(rows, {r \in Range(rows) : r.id # id}),
          ids |-> n, resp |-> NoContent, sql |-> <<"delete">>]

\* POST /api/todos/:id/toggle
PostToggle(rows, n, t, id) ==
    IF ~idParamsSchema(Params(id)) THEN Fails(rows, n, ZodError, <<>>)
    ELSE IF ~HasRow(rows, id)
    THEN Fails(rows, n, createError("Todo not found", 404), <<"update">>)
    ELSE LET old == RowOf(rows, id)
             new == [old EXCEPT !.completed = ~@, !.updated_at = t]
         IN Answers([i \in 1..Len(rows) |-> IF rows[i].id = id THEN new ELSE rows[i]],
                    n, 200, new, <<"update">>)

\* DELETE /api/todos
DeleteCompletedTodos(rows, n) ==
    LET kept == SelectSeqBy(rows, {r \in Range(rows) : ~r.completed})
    IN Answers(kept, n, 200, [deleted |-> Len(rows) - Len(kept)], <<"delete">>)

PercentTruncated(part, whole) == (100 * part) \div whole

\* Math.round((part / whole) * 100)
Percent(part, whole) == (200 * part + whole) \div (2 * whole)

\* SELECT COUNT(*) ... WHERE due_date < NOW() AND completed = false
Overdue(rows, t) ==
    Cardinality({i \in 1..Len(rows) :
                   /\ rows[i].due_date # None
                   /\ The(rows[i].due_date) < t
                   /\ rows[i].completed = FALSE})

\* GET /api/stats
GetStats(rows, n, t) ==
    LET total == Len(rows)
        completed == Cardinality({i \in 1..Len(rows) : rows[i].completed})
    IN Answers(rows, n, 200,
               [total |-> total, completed |-> completed,
                incomplete |-> total - completed,
                completionRate |-> IF total > 0 THEN Percent(completed, total) ELSE 0,
                byPriority |-> [p \in {rows[i].priority : i \in 1..Len(rows)} |->
                                  Cardinality({i \in 1..Len(rows) : rows[i].priority = p})],
                overdue |-> Overdue(rows, t)],
               <<"count", "count", "count", "count">>)

\* the requests a client sends
ListQueries ==
    {[page |-> "1"], [completed |-> "true"], [priority |-> "high"],
     [completed |-> "false", priority |-> "high"], [completed |-> "maybe"],
     [page |-> "1", limit |-> "1"], [page |-> "2", limit |-> "1"],
     [page |-> "0", limit |-> "1"], [page |-> "1", limit |-> "0"],
     [page |-> "1", limit |-> "-1"], [page |-> "1.5", limit |-> "2"],
     [page |-> "abc"]}

CreateBodies ==
    {[title |-> "a"],
     [title |-> "a", description |-> "d", priority |-> "high",
      due_date |-> "2000-01-01T00:00:00Z", completed |-> TRUE],
     [title |-> "a", due_date |-> "2000-01-01T00:00:00Z"],
     [title |-> ""], [title |-> " "],
     [title |-> "a", priority |-> "urgent"]}

PatchBodies ==
    {[title |-> "b"], [priority |-> "low", completed |-> TRUE],
     [title |-> ""], [unknown |-> "x"]}

\* ids a request is addressed to: of a row, of no row, and malformed
RequestIds == {"id1", "id9", "bad"}

ApiRequests ==
    {[route |-> "list", query |-> <<>>]}
    \cup {[route |-> "list", query |-> q] : q \in ListQueries}
    \cup {[route |-> "create", body |-> b] : b \in CreateBodies}
    \cup {[route |-> r, id |-> id] : r \in {"get", "delete", "toggle"}, id \in RequestIds}
    \cup {[route |-> "patch", id |-> id, body |-> <<>>] : id \in RequestIds}
    \cup {[route |-> "patch", id |-> id, body |-> b] : id \in RequestIds, b \in PatchBodies}
    \cup {[route |-> "clear"], [route |-> "stats"]}

\* the router: the route a request reaches, on the rows and the clock of
\* the moment
Route(r, rows, n, t, ddl) ==
    CASE r.route = "list" -> ListTodos(rows, n, r.query)
      [] r.route = "create" -> PostTodo(rows, n, t, ddl, r.body)
      [] r.route = "get" -> GetTodo(rows, n, r.id)
      [] r.route = "patch" -> PatchTodo(rows, n, t, ddl, r.id, r.body)
      [] r.route = "delete" -> DeleteTodo(rows, n, r.id)
      [] r.route = "toggle" -> PostToggle(rows, n, t, r.id)
      [] r.route = "clear" -> DeleteCompletedTodos(rows, n)
      [] OTHER -> GetStats(rows, n, t)

\* The API on a database built from the schema file or from the migration,
\* before any todo is stored.
InitApi ==
    /\ store = <<>>
    /\ nextId = 0
    /\ now = 0
    /\ wire = "wrapped"
    /\ cache = [k \in {} |-> NewQuery]
    /\ orphans = {}
    /\ muts = <<>>
    /\ started = 0
    /\ last = NoMutation
    /\ tx = TxIdle
    /\ \E ddl \in {"schema", "migration"} : api = [ApiIdle EXCEPT !.ddl = ddl]

\* one request is handled from its middleware to its response
ApiRequest(r) ==
    /\ api.count < MaxRequests
    /\ LET h == Route(r, store, nextId, now, api.ddl)
       IN /\ store' = h.rows
          /\ nextId' = h.ids
          /\ api' = [api EXCEPT !.count = @ + 1, !.req = r, !.resp = h.resp,
                                !.sql = h.sql, !.before = store, !.at = now]
    /\ UNCHANGED <<now, wire, cache, orphans, muts, started, last, tx>>

\* NOW() moves on between two requests
ApiTick ==
    /\ now < MaxClock
    /\ now' = now + 1
    /\ UNCHANGED <<store, nextId, wire, cache, orphans, muts, started, last, tx, api>>

NextApi ==
    \/ \E r \in ApiRequests : ApiRequest(r)
    \/ ApiTick

SpecApi == InitApi /\ [][NextApi]_vars

\* ------------------------------------------- requests that overlap
\* The handlers await each statement; every statement is its own autocommit
\* transaction on a connection of the pool, so the statements of another
\* request may run between two statements of a list or stats request.

\* rows of the page: ORDER BY created_at DESC LIMIT limit OFFSET offset
SelectPage(rows, f) ==
    LET lim == f.limit.halves \div 2
        off == Offset4(f) \div 4
        found == Matching(rows, f)
        end == IF off + lim < Len(found) THEN off + lim ELSE Len(found)
    IN IF off >= Len(found) THEN <<>> ELSE SubSeq(found, off + 1, end)

\* SELECT COUNT(*) as total ... with the same filters
CountMatching(rows, f) == Len(Matching(rows, f))

\* SELECT COUNT(*) as completed ... WHERE completed = true
CountCompleted(rows) == Cardinality({i \in 1..Len(rows) : rows[i].completed})

\* SELECT priority, COUNT(*) ... GROUP BY priority
CountByPriority(rows) ==
    [p \in {rows[i].priority : i \in 1..Len(rows)} |->
        Cardinality({i \in 1..Len(rows) : rows[i].priority = p})]

\* the list queries and the bodies of the writes that are followed
RaceQueries == {<<>>, [completed |-> "true"], [completed |-> "maybe"]}
RaceBodies ==
    {[title |-> "a"],
     [title |-> "a", description |-> "d", priority |-> "high",
      due_date |-> "2000-01-01T00:00:00Z", completed |-> TRUE]}

\* no list or stats request is being handled
RaceIdle ==
    [ddl |-> "schema", count |-> 0, writes |-> 0, pc |-> "idle",
     req |-> [route |-> "none"], resp |-> NoResponse, seen |-> <<>>,
     data |-> <<>>, total |-> 0, completed |-> 0, byPriority |-> <<>>]

InitRace ==
    /\ store = <<>>
    /\ nextId = 0
    /\ now = 0
    /\ wire = "wrapped"
    /\ cache = [k \in {} |-> NewQuery]
    /\ orphans = {}
    /\ muts = <<>>
    /\ started = 0
    /\ last = NoMutation
    /\ tx = TxIdle
    /\ api = RaceIdle

\* GET /api/todos up to its first statement: validateQuery, then the page
\* is selected; seen is the state of the table the page was read from
ListSelect(q) ==
    /\ api.pc \in {"idle", "answered"}
    /\ api.count < MaxReads
    /\ LET parsed == listTodosQuerySchema(q)
           begun == [RaceIdle EXCEPT !.count = api.count + 1, !.writes = api.writes,
                                     !.req = [route |-> "list", query |-> q]]
       IN api' = IF ~parsed.ok
                 THEN [begun EXCEPT !.pc = "answered", !.resp = errorHandler(ZodError)]
                 ELSE [begun EXCEPT !.pc = "selected", !.seen = store,
                                    !.data = SelectPage(store, parsed.value)]
    /\ UNCHANGED <<store, nextId, now, wire, cache, orphans, muts, started, last, tx>>

\* the count statement of the list request, and its response
ListCount ==
    /\ api.pc = "selected"
    /\ LET f == listTodosQuerySchema(api.req.query).value
           total == CountMatching(store, f)
       IN api' = [api EXCEPT !.pc = "answered", !.total = total,
                     !.resp = Http(200, Some(
                        [data |-> api.data,
                         pagination |-> [page |-> f.page, limit |-> f.limit,
                                         total |-> total,
                                         totalPages |->
                                            TotalPages(total, f.limit.halves \div 2)]]))]
    /\ UNCHANGED <<store, nextId, now, wire, cache, orphans, muts, started, last, tx>>

\* GET /api/stats, statement by statement
StatsTotal ==
    /\ api.pc \in {"idle", "answered"}
    /\ api.count < MaxReads
    /\ api' = [RaceIdle EXCEPT !.count = api.count + 1, !.writes = api.writes,
                               !.req = [route |-> "stats"], !.pc = "total",
                               !.seen = store, !.total = Len(store)]
    /\ UNCHANGED <<store, nextId, now, wire, cache, orphans, muts, started, last, tx>>

StatsCompleted ==
    /\ api.pc = "total"
    /\ api' = [api EXCEPT !.pc = "completed", !.completed = CountCompleted(store)]
    /\ UNCHANGED <<store, nextId, now, wire, cache, orphans, muts, started, last, tx>>

StatsByPriority ==
    /\ api.pc = "completed"
    /\ api' = [api EXCEPT !.pc = "priority", !.byPriority = CountByPriority(store)]
    /\ UNCHANGED <<store, nextId, now, wire, cache, orphans, muts, started, last, tx>>

\* the overdue statement of the stats request, and its response
StatsOverdue ==
    /\ api.pc = "priority"
    /\ api' = [api EXCEPT !.pc = "answered",
                  !.resp = Http(200, Some(
                     [total |-> api.total, completed |-> api.completed,
                      incomplete |-> api.total - api.completed,
                      completionRate |-> IF api.total > 0
                                         THEN Percent(api.completed, api.total) ELSE 0,
                      byPriority |-> api.byPriority,
                      overdue |-> Overdue(store, now)]))]
    /\ UNCHANGED <<store, nextId, now, wire, cache, orphans, muts, started, last, tx>>

\* another request writes: POST /api/todos or DELETE /api/todos, each a
\* single statement
RaceWrite(h) ==
    /\ api.writes < MaxWrites
    /\ store' = h.rows
    /\ nextId' = h.ids
    /\ api' = [api EXCEPT !.writes = @ + 1]
    /\ UNCHANGED <<now, wire, cache, orphans, muts, started, last, tx>>

NextRace ==
    \/ \E q \in RaceQueries : ListSelect(q)
    \/ ListCount
    \/ StatsTotal
    \/ StatsCompleted
    \/ StatsByPriority
    \/ StatsOverdue
    \/ \E b \in RaceBodies : RaceWrite(PostTodo(store, nextId, now, api.ddl, b))
    \/ RaceWrite(DeleteCompletedTodos(store, nextId))

SpecRace == InitRace /\ [][NextRace]_vars

\* ------------------------------------------------------------ properties
\* the hooks that write the cache before the request
OptimisticKinds == {"create", "update", "delete", "toggle"}

\* the keys the optimistic phase of a mutation of this kind writes
Touched(kind, id, k) ==
    \/ PartialMatch(ListsKey, k)
    \/ kind \in {"update", "toggle"} /\ k = DetailKey(id)

\* the keys a commit is to invalidate
ToInvalidate(id, k) ==
    PartialMatch(ListsKey, k) \/ k = StatsKey \/ k = DetailKey(id)

Positions(log, names) == {j \in 1..Len(log) : log[j] \in names}

Precedes(log, first, then) ==
    \A i \in Positions(log, first) : \A j \in Positions(log, then) : i < j

Count(log, name) == Cardinality(Positions(log, {name}))

Snapshots == {"snapshotDetail", "snapshotLists"}
Writes == {"writeDetail", "writeLists"}
Invalidations == {"invalidateDetail", "invalidateLists", "invalidateStats"}

\* mutation i concludes in this step after a failed request
FailsNow(i) ==
    /\ i \in 1..Len(muts)
    /\ muts[i].pc = "waiting"
    /\ muts' = RemoveAt(muts, i)
    /\ last'.seq = last.seq + 1
    /\ ~last'.ok

RollbackInvalidatesNothing ==
    (last.seq > 0 /\ ~last.ok /\ ~last.threw /\ last.kind \in OptimisticKinds) =>
       last.invalidated = <<>>

\* C3: the step that concludes a failed create, update, delete or toggle
\* leaves every list variant and the stats entry, and for update and toggle
\* the detail entry of the id, marked invalidated with a refetch running,
\* as the step that concludes a successful one does.
SettleInvalidatesAfterFailure ==
    [][\A i \in 1..MaxMutations :
          (FailsNow(i) /\ muts[i].kind \in OptimisticKinds) =>
             \A k \in DOMAIN cache :
                (\/ PartialMatch(ListsKey, k)
                 \/ k = StatsKey
                 \/ muts[i].kind \in {"update", "toggle"} /\ k = DetailKey(muts[i].id))
                => /\ cache'[k].isInvalidated
                   /\ cache'[k].fetchStatus = "fetching"]_vars

\* a failed update has been rolled back and its keys are marked
FailedAndInvalidated ==
    /\ last.seq > 0 /\ ~last.ok /\ ~last.threw
    /\ last.kind = "update"
    /\ Count(last.log, "rollback") = 1
    /\ \A k \in DOMAIN cache : cache[k].isInvalidated

\* an optimistic mutation has settled, no other is under way, and no fetch
\* is running or outstanding
Quiescent ==
    /\ last.seq > 0
    /\ last.kind \in OptimisticKinds
    /\ muts = <<>>
    /\ orphans = {}
    /\ \A k \in DOMAIN cache : cache[k].fetchStatus = "idle"

\* what the API answers to the request of query k now
ServerView(k) ==
    LET r == QueryFn(k, store, wire) IN IF r.ok THEN r.data ELSE None

SettlesExactlyOnce ==
    /\ \A i \in 1..Len(muts) : Count(muts[i].log, "settle") = 0
    /\ (last.seq > 0 /\ last.kind \in OptimisticKinds) =>
          /\ Count(last.log, "settle") = 1
          /\ Count(last.log, "commit") + Count(last.log, "rollback") = 1
          /\ Count(last.log, "commit") = 1 <=> last.ok
          /\ Precedes(last.log, {"commit", "rollback"}, {"settle"})

\* a mutation whose request went out twice has concluded and settled
SettledAfterRetry ==
    /\ last.kind \in OptimisticKinds
    /\ last.sent = 2
    /\ Count(last.log, "settle") = 1

\* the log of one mutation is in the order of C6
Ordered(log) ==
    /\ Precedes(log, Snapshots, Writes)
    /\ Precedes(log, Writes, {"send"})
    /\ Precedes(log, {"send"}, {"commit", "rollback"})
    /\ Precedes(log, {"commit", "rollback"}, {"settle"})
    /\ Precedes(log, Snapshots \cup Writes \cup {"send", "commit", "rollback"},
                     Invalidations)

\* C6: in every optimistic mutation the snapshot is taken before the
\* optimistic write, the write is made before the request, the commit or
\* rollback follows the request, and the settle step comes last; the
\* snapshot therefore holds the value from before the write.
SnapshotWriteRequestSettleOrder ==
    /\ Ordered(last.log)
    /\ \A i \in 1..Len(muts) :
          /\ Ordered(muts[i].log)
          /\ muts[i].kind \in OptimisticKinds =>
                /\ Positions(muts[i].log, Snapshots) # {}
                /\ Positions(muts[i].log, Writes) # {}
          /\ muts[i].kind \in {"update", "toggle"} =>
                The(muts[i].context).previousTodo
                   = muts[i].pre[DetailKey(muts[i].id)]

\* a toggle went through every phase: snapshot, write, request, rollback,
\* settle
WentThroughEveryPhase ==
    /\ last.kind = "toggle"
    /\ \A name \in {"snapshotDetail", "writeDetail", "send", "rollback", "settle"} :
          Count(last.log, name) >= 1

\* C7: the optimistic phase cancels the fetch running on each key it is
\* about to write, and the response of a cancelled fetch changes nothing in
\* the cache when it arrives.
OptimisticPhaseCancelsRefetch ==
    [][/\ (started' = started + 1) =>
            \A kind \in OptimisticKinds : \A v \in Variables(kind) :
               Start(kind, v) =>
                  \A k \in DOMAIN cache :
                     (Touched(kind, v.id, k) /\ cache[k].fetchStatus = "fetching")
                     => /\ k \in orphans'
                        /\ cache'[k].resp = None
       /\ (orphans' # orphans /\ orphans' \subseteq orphans) => cache' = cache]_vars

\* the fetch of a list was cancelled by a mutation that is still under way,
\* and its response is yet to arrive
CancelledFetchOutstanding ==
    /\ muts # <<>>
    /\ \E k \in orphans :
          /\ Touched(muts[1].kind, muts[1].id, k)
          /\ cache[k].fetchStatus = "idle"

\* C8: the request of a write is sent at most twice, and a second time only
\* after the first attempt ended without a response.
WriteResentOnlyAfterNetworkFailure ==
    /\ \A i \in 1..Len(muts) :
          /\ muts[i].sent <= 2
          /\ muts[i].sent = 2 => muts[i].errors[1] = 0
    /\ last.sent <= 2
    /\ last.sent = 2 => last.errors[1] = 0

\* C9: a read is not attempted again after a 4xx response, and is attempted
\* at most three more times after failures of other kinds.
ReadNotRetriedOn4xx ==
    /\ Len(tx.attempts) <= 4
    /\ \A j \in 1..Len(tx.attempts) - 1 :
          ~(/\ tx.attempts[j].response.received
            /\ tx.attempts[j].response.status \in 400..499)

\* C10: a response outside 2xx becomes an ApiClientError that carries its
\* HTTP status, statusCode 0 is produced only when no response was received,
\* and a 204 is an empty success.
ErrorCarriesHttpStatus ==
    \A j \in 1..Len(tx.attempts) :
       LET a == tx.attempts[j] IN
       /\ (a.response.received /\ a.response.status \notin 200..299) =>
             /\ ~a.result.ok
             /\ a.result.error.statusCode = a.response.status
       /\ (~a.result.ok /\ a.result.error.statusCode = 0) => ~a.response.received
       /\ (a.response.received /\ a.response.status = 204) =>
             a.result = Resolved(None)

\* the last request was a list request and was answered with a body
ListAnswered == api.req.route = "list" /\ api.resp.status = 200

\* C11: a list request returns exactly the todos that match every filter it
\* carries: with no completed parameter, todos of either completed value;
\* with one, the todos whose completed equals it; likewise for priority.
ListReturnsEveryMatch ==
    (ListAnswered /\ ~Has(api.req.query, "limit")) =>
       LET q == api.req.query IN
       Range(The(api.resp.body).data) =
          {r \in Range(api.before) :
              /\ Has(q, "completed") => r.completed = (q.completed = "true")
              /\ Has(q, "priority") => r.priority = q.priority}

\* C12: an answered list request has totalPages = ceil(total / limit), at
\* most limit items, and the items are those at offset (page - 1) * limit
\* of the matching todos, newest first.
ListPagesAreConsistent ==
    ListAnswered =>
       LET f == listTodosQuerySchema(api.req.query).value
           p == The(api.resp.body).pagination
           data == The(api.resp.body).data
           found == Matching(api.before, f)
       IN /\ p.total = Len(found)
          /\ p.totalPages # None
          /\ The(p.totalPages) * f.limit.halves >= 2 * p.total
          /\ (The(p.totalPages) - 1) * f.limit.halves < 2 * p.total \/ p.total = 0
          /\ 2 * Len(data) <= f.limit.halves
          /\ \A i \in 1..Len(data) :
                /\ Offset4(f) + 4 * i <= 4 * Len(found)
                /\ data[i] = found[(Offset4(f) + 4 * i) \div 4]

\* raw values of page and limit that are positive integers
PositiveIntegers == {"1", "2", "50"}

\* C13: a list request whose page or limit is not a positive integer is
\* rejected with status 400 and no query is run for it.
ListRejectsBadPaging ==
    (/\ api.req.route = "list"
     /\ \/ Has(api.req.query, "page") /\ api.req.query.page \notin PositiveIntegers
        \/ Has(api.req.query, "limit") /\ api.req.query.limit \notin PositiveIntegers)
    => /\ api.resp.status = 400
       /\ api.sql = <<>>

\* C14: an update whose patch has no recognized field, addressed to a
\* well-formed id, is rejected with 400 'No fields to update' and changes no
\* row.
EmptyPatchIsRejected ==
    (/\ api.req.route = "patch"
     /\ api.req.id \in WellFormedIds
     /\ DOMAIN api.req.body \cap Recognized = {})
    => /\ api.resp.status = 400
       /\ The(api.resp.body).error = "No fields to update"
       /\ store = api.before

\* C15: a create answered 201 followed by a get of the returned id is
\* answered 200 with the todo that was created, which carries the fields of
\* the input, completed = false unless given as true and priority 'medium'
\* unless given.
CreateThenGetRoundTrip ==
    [][(/\ api.req.route = "create"
        /\ api.resp.status = 201
        /\ api'.count = api.count + 1
        /\ api'.req.route = "get"
        /\ api'.req.id = The(api.resp.body).id)
       => LET b == api.req.body
              made == The(api.resp.body)
          IN /\ api'.resp.status = 200
             /\ The(api'.resp.body) = made
             /\ made.title = b.title
             /\ made.completed = (Has(b, "completed") /\ b.completed)
             /\ made.priority = IF Has(b, "priority") THEN b.priority ELSE "medium"
             /\ Has(b, "description") => made.description = Some(b.description)]_vars

\* C16: two toggles in a row of an existing todo are both answered 200, the
\* first showing the flipped value and the second the original one, and
\* nothing but completed and updated_at differs from the original todo.
ToggleTwiceRestores ==
    [][(/\ api.req.route = "toggle"
        /\ HasRow(api.before, api.req.id)
        /\ api'.count = api.count + 1
        /\ api'.req = api.req)
       => LET orig == RowOf(api.before, api.req.id) IN
          /\ api.resp.status = 200
          /\ api'.resp.status = 200
          /\ The(api.resp.body).completed = ~orig.completed
          /\ The(api'.resp.body).completed = orig.completed
          /\ [The(api'.resp.body) EXCEPT !.updated_at = orig.updated_at] = orig]_vars

\* C17: get, update with a valid non-empty patch, delete and toggle of a
\* well-formed id that has no row are answered 404 'Todo not found' and
\* leave the store as it was.
MissingIdIsNotFound ==
    (/\ api.req.route \in {"get", "patch", "delete", "toggle"}
     /\ api.req.id \in WellFormedIds
     /\ ~HasRow(api.before, api.req.id)
     /\ api.req.route = "patch" =>
           /\ updateTodoSchema(api.req.body).ok
           /\ DOMAIN updateTodoSchema(api.req.body).value # {})
    => /\ api.resp.status = 404
       /\ The(api.resp.body).error = "Todo not found"
       /\ store = api.before

\* C18: a stats response has completed + incomplete = total, completionRate
\* the nearest integer to 100 * completed / total (halves upwards, 0 when
\* total is 0), and overdue the number of rows that are not completed and
\* whose due_date lies before the moment of the request.
StatsAreConsistent ==
    api.req.route = "stats" =>
       LET st == The(api.resp.body)
           rows == api.before
       IN /\ api.resp.status = 200
          /\ st.total = Len(rows)
          /\ st.completed = Cardinality({i \in 1..Len(rows) : rows[i].completed})
          /\ st.completed + st.incomplete = st.total
          /\ IF st.total = 0 THEN st.completionRate = 0
             ELSE /\ 2 * st.completionRate * st.total - st.total <= 200 * st.completed
                  /\ 200 * st.completed < 2 * st.completionRate * st.total + st.total
          /\ st.overdue = Cardinality({i \in 1..Len(rows) :
                             /\ ~rows[i].completed
                             /\ rows[i].due_date # None
                             /\ The(rows[i].due_date) < api.at})

\* stats of three todos: two completed and past their due date, one not
\* completed and overdue
StatsOfThirdsAndOverdue ==
    /\ api.req.route = "stats"
    /\ The(api.resp.body).total = 3
    /\ The(api.resp.body).completed = 2
    /\ The(api.resp.body).completionRate = 67
    /\ The(api.resp.body).overdue = 1

\* C19: every stored todo has a title that is not empty once trimmed, a
\* priority among low, medium, high, and updated_at >= created_at.
StoredTodosAreWellFormed ==
    api.count > 0 =>
       \A i \in 1..Len(store) :
          /\ StrLen(Trim(store[i].title)) > 0
          /\ store[i].priority \in priorityEnum
          /\ store[i].updated_at >= store[i].created_at

\* C20: when a create starts, every cached list variant gets the temporary
\* todo (placeholder id, submitted title, completed = false) at its head
\* with the other items after it in their order, and its total grows by 1.
CreateInsertsAtHead ==
    [][\A v \in Variables("create") :
          (started' = started + 1 /\ Start("create", v)) =>
             \A k \in DOMAIN cache :
                (PartialMatch(ListsKey, k) /\ cache[k].data # None) =>
                   LET old == The(cache[k].data)
                       new == The(cache'[k].data)
                   IN /\ Has(old, "todos") /\ Has(new, "todos")
                      /\ Len(new.todos) = Len(old.todos) + 1
                      /\ Tail(new.todos) = old.todos
                      /\ Head(new.todos).id = TempId(now)
                      /\ Head(new.todos).title = v.data.title
                      /\ Head(new.todos).completed = FALSE
                      /\ new.total = old.total + 1]_vars

\* the todo an optimistic update or toggle is to leave in place of todo
Patched(kind, data, todo) ==
    IF kind = "update" THEN Merge(todo, data) ELSE [todo EXCEPT !.completed = ~@]

\* C21: when an update or a toggle of id X starts, the detail entry of X and
\* every cached list variant get the patch merged into (or completed flipped
\* in) todo X and nothing else: every other todo, the order and the total of
\* each list and every other entry stay as they were.
OptimisticWriteTouchesOnlyTarget ==
    [][\A kind \in {"update", "toggle"} : \A v \in Variables(kind) :
          Start(kind, v) =>
             \A k \in DOMAIN cache :
                cache[k].data # None =>
                   IF k = DetailKey(v.id)
                   THEN cache'[k].data = Some(Patched(kind, v.data, The(cache[k].data)))
                   ELSE IF PartialMatch(ListsKey, k)
                   THEN LET old == The(cache[k].data)
                            new == The(cache'[k].data)
                        IN /\ Has(old, "todos") /\ Has(new, "todos")
                           /\ Len(new.todos) = Len(old.todos)
                           /\ new.total = old.total
                           /\ \A i \in 1..Len(old.todos) :
                                 new.todos[i] =
                                    IF old.todos[i].id = v.id
                                    THEN Patched(kind, v.data, old.todos[i])
                                    ELSE old.todos[i]
                   ELSE cache'[k].data = cache[k].data]_vars

\* C22: when a delete of id X starts, every cached list variant loses X and
\* its total goes down by 1, the other todos keeping their order, and the
\* detail entry of X stays as it was.
OptimisticDeleteRemovesFromLists ==
    [][\A v \in Variables("delete") :
          Start("delete", v) =>
             \A k \in DOMAIN cache :
                IF k = DetailKey(v.id)
                THEN cache'[k] = cache[k]
                ELSE (PartialMatch(ListsKey, k) /\ cache[k].data # None) =>
                        LET old == The(cache[k].data)
                            new == The(cache'[k].data)
                        IN /\ Has(old, "todos") /\ Has(new, "todos")
                           /\ new.todos = SelectSeqBy(old.todos,
                                             {x \in Range(old.todos) : x.id # v.id})
                           /\ new.total = old.total - 1]_vars

\* C23: delete-completed writes nothing optimistically: its start, its
\* request and a retry leave every cache entry as it was; when it succeeds
\* the list prefix and the stats key are invalidated (the data stays until
\* the refetch); when it fails no cache entry changes and nothing is
\* invalidated.
DeleteCompletedInvalidatesOnSuccessOnly ==
    [][/\ \A v \in Variables("deleteCompleted") :
             Start("deleteCompleted", v) => cache' = cache
       /\ \A i \in 1..Len(muts) :
             muts[i].kind = "deleteCompleted" =>
                /\ (\E net \in NetOutcomes : Send(i, net)) => cache' = cache
                /\ Receive(i) =>
                      IF last'.seq = last.seq THEN cache' = cache
                      ELSE IF last'.ok
                      THEN /\ last'.invalidated = <<ListsKey, StatsKey>>
                           /\ \A k \in DOMAIN cache :
                                 /\ cache'[k].data = cache[k].data
                                 /\ IF PartialMatch(ListsKey, k) \/ k = StatsKey
                                    THEN cache'[k].isInvalidated
                                    ELSE cache'[k] = cache[k]
                      ELSE /\ cache' = cache
                           /\ last'.invalidated = <<>>]_vars

\* a delete-completed that succeeded on its second attempt and left the
\* lists and the stats stale
ClearedAfterRetry ==
    /\ last.kind = "deleteCompleted"
    /\ last.ok
    /\ last.sent = 2
    /\ last.invalidated = <<ListsKey, StatsKey>>
    /\ cache[StatsKey].isInvalidated
    /\ \A f \in ListFilters : cache[ListKey(f)].isInvalidated

\* mutation i concludes in this step with a rollback
RollsBack(i) ==
    /\ Receive(i)
    /\ last'.seq = last.seq + 1
    /\ ~last'.ok

\* keys whose data mutation m replaced when it started
Written(m) ==
    {k \in DOMAIN m.pre :
        /\ m.pre[k] # None
        /\ k = DetailKey(m.id) \/ PartialMatch(ListsKey, k)}

RequestAppliedAtMostOnce ==
    [][\A i \in 1..Len(muts) :
          (/\ muts[i].kind \in {"create", "toggle"}
           /\ \E net \in NetOutcomes : Send(i, net)
           /\ store # InitialRows)
          => store' = store]_vars

FetchedListsArePatchable ==
    [][/\ \A k \in DOMAIN cache :
             (/\ PartialMatch(ListsKey, k)
              /\ Deliver(k)
              /\ The(cache[k].resp).ok)
             => /\ Has(The(cache'[k].data), "todos")
                /\ Has(The(cache'[k].data), "total")
       /\ \A kind \in OptimisticKinds : \A v \in Variables(kind) :
             Start(kind, v) =>
                /\ Len(muts') = Len(muts) + 1
                /\ \A k \in DOMAIN cache :
                      (PartialMatch(ListsKey, k) /\ cache[k].data # None) =>
                         /\ Has(The(cache'[k].data), "todos")
                         /\ Has(The(cache'[k].data), "total")]_vars

ResponsesReadOneState ==
    (api.pc = "answered" /\ api.resp.status = 200) =>
       LET body == The(api.resp.body) IN
       IF api.req.route = "list"
       THEN body.pagination.total =
               CountMatching(api.seen, listTodosQuerySchema(api.req.query).value)
       ELSE /\ 0 <= body.completed
            /\ body.completed <= body.total
            /\ body.incomplete >= 0

====
